---- MODULE Spec2Model ----
(***************************************************************************)
(* EventedSpacePrimitives (src/unnamed/part_000, lines 117-313): the       *)
(* change-detecting wrapper around a SpacePrimitives backend.              *)
(*                                                                         *)
(* Every async method is cut at its awaits.  A call is                     *)
(*   Start*    the synchronous prefix up to the first await,               *)
(*   Backend*  the wrapped backend executing the request (its result is    *)
(*             fixed here, the continuation has not run yet),              *)
(*   Resume*   the continuation up to the next await or the return,        *)
(*   DispatchThrows  an awaited dispatchEvent rejecting,                   *)
(*   SettleFloating  a dispatchEvent promise nobody awaits settling.       *)
(* JavaScript is single threaded: each of these steps is atomic, and any   *)
(* other call may run its own steps between two of them.                   *)
(***************************************************************************)
EXTENDS Integers, Sequences, FiniteSets, TLC

\* ---------------------------------------------------------------- bounds
\* calls issued in one behaviour, calls in flight at once, injected failures,
\* modifications of the backend made behind the wrapper's back
MaxOps == 2
MaxInFlight == 2
MaxFaults == 1
MaxExternal == 1
\* calls of a behaviour that only lists
MaxListOps == 3
\* calls per behaviour of the Write-and-List specification
MaxWriteListOps == 3
\* lastModified values are 0 .. MaxToken
MaxToken == 2

\* ------------------------------------------------------------ vocabulary
\* JavaScript's undefined: a missing key of spaceSnapshot, a missing result.
Undefined == -1

Tokens == 0 .. MaxToken

\* File names are character sequences, so that endsWith / substring compute.
MdSuffix == <<".", "m", "d">>

NameOrder == << <<"a", ".", "m", "d">>, <<"b">> >>

Names == { NameOrder[k] : k \in 1 .. Len(NameOrder) }

NoName == <<>>

\* name.endsWith(".md")
EndsWithMd(name) ==
  /\ Len(name) >= Len(MdSuffix)
  /\ SubSeq(name, Len(name) - Len(MdSuffix) + 1, Len(name)) = MdSuffix

\* name.substring(0, name.length - 3)
PageName(name) == SubSeq(name, 1, Len(name) - 3)

\* JavaScript truthiness of a hash: undefined and 0 are falsy.
Truthy(h) == h # Undefined /\ h # 0

\* What a caller hands to writeFile: a byte-order mark, "h", an e-acute in
\* two bytes and a byte that is no UTF-8.
Data == { <<239, 187, 191, 104, 195, 169, 255>> }

Replacement == 65533

\* new TextDecoder("utf-8").decode(bytes) from byte i on, for the one- and
\* two-byte forms: the code points of the text
RECURSIVE Utf8From(_, _)
Utf8From(bytes, i) ==
  IF i > Len(bytes) THEN <<>>
  ELSE IF bytes[i] < 128
  THEN <<bytes[i]>> \o Utf8From(bytes, i + 1)
  ELSE IF /\ bytes[i] \in 194 .. 223
          /\ i < Len(bytes)
          /\ bytes[i + 1] \in 128 .. 191
  THEN <<(bytes[i] - 192) * 64 + (bytes[i + 1] - 128)>>
         \o Utf8From(bytes, i + 2)
  ELSE <<Replacement>> \o Utf8From(bytes, i + 1)

\* a leading byte-order mark is not part of the text
Utf8Decode(bytes) ==
  IF Len(bytes) >= 3 /\ SubSeq(bytes, 1, 3) = <<239, 187, 191>>
  THEN Utf8From(bytes, 4)
  ELSE Utf8From(bytes, 1)

\* ------------------------------------------------- spaceSnapshot (Record)
\* A JavaScript object with string keys: an association list in insertion
\* order (the order Object.keys reports).
SnapIndex(snap, name) ==
  IF \E k \in 1 .. Len(snap) : snap[k].name = name
  THEN CHOOSE k \in 1 .. Len(snap) : snap[k].name = name
  ELSE 0

\* this.spaceSnapshot[name]
SnapGet(snap, name) ==
  IF SnapIndex(snap, name) = 0 THEN Undefined ELSE snap[SnapIndex(snap, name)].hash

\* this.spaceSnapshot[name] = hash
SnapSet(snap, name, hash) ==
  IF SnapIndex(snap, name) = 0
  THEN Append(snap, [name |-> name, hash |-> hash])
  ELSE [snap EXCEPT ![SnapIndex(snap, name)].hash = hash]

\* delete this.spaceSnapshot[name]
SnapDelete(snap, name) ==
  LET Keep(e) == e.name # name IN SelectSeq(snap, Keep)

\* Object.keys(this.spaceSnapshot)
SnapKeys(snap) == [k \in 1 .. Len(snap) |-> snap[k].name]

SetDelete_Keeps(del, name) == del

\* deletedFiles.delete(name) on an insertion-ordered Set
SetDelete(del, name) ==
  LET Keep(n) == n # name IN SelectSeq(del, Keep)

\* ------------------------------------------------------- wrapped backend
\* wrapped.fetchFileList(): the entries the backend holds, as FileMeta.
BackendFileList(b) ==
  LET Present(n) == b[n] # Undefined
      names == SelectSeq(NameOrder, Present)
  IN [k \in 1 .. Len(names) |-> [name |-> names[k], lastModified |-> b[names[k]]]]

VARIABLES
  alreadyFetching,      \* the Guard
  initialFileListLoad,  \* true until a listing has completed
  spaceSnapshot,        \* name -> last seen lastModified
  backend,              \* wrapped SpacePrimitives: name -> lastModified
  ops,                  \* every call made so far, with its position
  events,               \* every dispatchEvent call so far, in call order
  pending,              \* indices of events whose dispatch has not settled
  mods,                 \* name -> number of backend modifications so far
  faults,               \* injected failures so far
  externals,            \* backend modifications made behind the wrapper
  limits                \* what this behaviour may do (never changes)

vars == <<alreadyFetching, initialFileListLoad, spaceSnapshot, backend, ops,
          events, pending, mods, faults, externals, limits>>

OpIds == 1 .. Len(ops)

Finished(op) == op.pc \in {"done", "failed"}

InFlight == { o \in OpIds : ~Finished(ops[o]) }

\* A fresh call record.
NewOp(kind, name, selfUpdate, wasFetching, pc) ==
  [kind |-> kind, name |-> name, selfUpdate |-> selfUpdate,
   wasFetching |-> wasFetching, alone |-> InFlight = {},
   pc |-> pc, err |-> "none", meta |-> Undefined, list |-> <<>>,
   i |-> 0, del |-> <<>>, guardAtExit |-> FALSE,
   ret |-> [meta |-> Undefined, list |-> <<>>],
   data |-> <<>>,                       \* writeFile's data argument
   seen |-> IF name \in Names           \* Snapshot[name] on entry
            THEN SnapGet(spaceSnapshot, name) ELSE Undefined,
   snap0 |-> <<>>]                      \* the Snapshot when the diff starts

\* One dispatchEvent call.
Event(o, kind, name, isLocal, old, new, list, awaited) ==
  [op |-> o, kind |-> kind, name |-> name, isLocal |-> isLocal,
   old |-> old, new |-> new, list |-> list, awaited |-> awaited,
   ver |-> IF name \in Names THEN mods[name] ELSE 0,
   initial |-> initialFileListLoad,
   text |-> <<>>,                       \* the text of page:index_text
   failed |-> FALSE]                    \* the dispatcher rejected it

CanStart == Len(ops) < limits.ops /\ Cardinality(InFlight) < MaxInFlight

Fresh ==
  /\ alreadyFetching = FALSE
  /\ initialFileListLoad = TRUE
  /\ spaceSnapshot = <<>>
  /\ backend \in [Names -> Tokens \cup {Undefined}]
  /\ ops = <<>>
  /\ events = <<>>
  /\ pending = {}
  /\ mods = [n \in Names |-> 0]
  /\ faults = 0
  /\ externals = 0

Init == Fresh /\ limits = [ops |-> MaxOps]

InitList == Fresh /\ limits = [ops |-> MaxListOps]


\* The awaited dispatch a call is suspended at (settled when the call resumes).
Settle(o) == { k \in pending : events[k].op = o /\ events[k].awaited }

\* await this.dispatchEvent(...)
EmitAwaited(o, ev) ==
  /\ events' = Append(events, ev)
  /\ pending' = (pending \ Settle(o)) \cup {Len(events) + 1}

\* a continuation that dispatches nothing
EmitNothing(o) ==
  /\ events' = events
  /\ pending' = pending \ Settle(o)

\* return newFileList / return data / return newMeta
Returned(op) == [meta |-> op.meta, list |-> op.list]

\* the call returns; guard is the Guard it leaves behind
Done(op, guard) ==
  [op EXCEPT !.pc = "done", !.guardAtExit = guard, !.ret = Returned(op)]

\* the call throws err; guard is the Guard it leaves behind
Failed(op, err, guard) ==
  [op EXCEPT !.pc = "failed", !.err = err, !.guardAtExit = guard]

AwaitingDispatch ==
  {"lchanged", "ldeleted", "lpageDeleted", "llisted", "wchanged", "wsaved",
   "windex", "gdel", "gdelPage", "dpage", "ddel"}

\* ---------------------------------------------------------- the backend
\* wrapped.fetchFileList() resolves
BackendList(o) ==
  /\ o \in OpIds /\ ops[o].kind = "list" /\ ops[o].pc = "backend"
  /\ ops' = [ops EXCEPT ![o].pc = "backendDone",
                        ![o].list = BackendFileList(backend)]
  /\ UNCHANGED <<alreadyFetching, initialFileListLoad, spaceSnapshot, backend,
                 events, pending, mods, faults,
                 externals, limits>>

\* wrapped.readFile(name) / wrapped.getFileMeta(name) resolves or rejects
BackendRead(o) ==
  /\ o \in OpIds /\ ops[o].kind \in {"read", "meta"} /\ ops[o].pc = "backend"
  /\ ops' = [ops EXCEPT ![o].pc = "backendDone",
                        ![o].meta = backend[ops[o].name],
                        ![o].err = IF backend[ops[o].name] = Undefined
                                   THEN "notfound" ELSE "none"]
  /\ UNCHANGED <<alreadyFetching, initialFileListLoad, spaceSnapshot, backend,
                 events, pending, mods, faults,
                 externals, limits>>

\* wrapped.writeFile(name, data, selfUpdate, meta) resolves with the new meta
BackendWrite(o) ==
  /\ o \in OpIds /\ ops[o].kind = "write" /\ ops[o].pc = "backend"
  /\ \E t \in Tokens :
       /\ backend' = [backend EXCEPT ![ops[o].name] = t]
       /\ ops' = [ops EXCEPT ![o].pc = "backendDone", ![o].meta = t]
  /\ mods' = [mods EXCEPT ![ops[o].name] = @ + 1]
  /\ UNCHANGED <<alreadyFetching, initialFileListLoad, spaceSnapshot,
                 events, pending, faults,
                 externals, limits>>

\* wrapped.deleteFile(name) resolves, or rejects when there is no such file
BackendDelete(o) ==
  /\ o \in OpIds /\ ops[o].kind = "delete" /\ ops[o].pc = "backend"
  /\ IF backend[ops[o].name] = Undefined
     THEN /\ ops' = [ops EXCEPT ![o].pc = "backendDone", ![o].err = "notfound"]
          /\ UNCHANGED <<backend, mods>>
     ELSE /\ ops' = [ops EXCEPT ![o].pc = "backendDone"]
          /\ backend' = [backend EXCEPT ![ops[o].name] = Undefined]
          /\ mods' = [mods EXCEPT ![ops[o].name] = @ + 1]
  /\ UNCHANGED <<alreadyFetching, initialFileListLoad, spaceSnapshot,
                 events, pending, faults,
                 externals, limits>>

\* another client, or an edit on disk, changes or removes a file (one made
\* before the first call is just another initial backend)
ExternalChange(name, t) ==
  /\ externals < MaxExternal
  /\ ops # <<>>
  /\ t # backend[name]
  /\ externals' = externals + 1
  /\ backend' = [backend EXCEPT ![name] = t]
  /\ mods' = [mods EXCEPT ![name] = @ + 1]
  /\ UNCHANGED <<alreadyFetching, initialFileListLoad, spaceSnapshot, ops,
                 events, pending, faults, limits>>

\* any backend call rejects with an I/O error
BackendFails(o) ==
  /\ o \in OpIds /\ ops[o].pc = "backend"
  /\ faults < MaxFaults
  /\ faults' = faults + 1
  /\ ops' = [ops EXCEPT ![o].pc = "backendDone", ![o].err = "backend"]
  /\ UNCHANGED <<alreadyFetching, initialFileListLoad, spaceSnapshot, backend,
                 events, pending, mods,
                 externals, limits>>

\* ------------------------------------------------------- the dispatcher
\* the events with the dispatches ks marked as rejected
Rejected(ks) ==
  [k \in 1 .. Len(events) |->
     IF k \in ks THEN [events[k] EXCEPT !.failed = TRUE] ELSE events[k]]

\* an awaited dispatchEvent rejects: every await of one sits in a try whose
\* finally clears the Guard
DispatchThrows(o) ==
  /\ o \in OpIds /\ ops[o].pc \in AwaitingDispatch
  /\ faults < MaxFaults
  /\ faults' = faults + 1
  /\ alreadyFetching' = FALSE
  /\ ops' = [ops EXCEPT ![o] = Failed(@, "dispatch", FALSE)]
  /\ events' = Rejected(Settle(o))
  /\ pending' = pending \ Settle(o)
  /\ UNCHANGED <<initialFileListLoad, spaceSnapshot, backend, mods,
                 externals, limits>>

\* a dispatchEvent promise that no one awaits rejects: no call sees it
FloatingThrows(k) ==
  /\ k \in pending /\ ~events[k].awaited
  /\ faults < MaxFaults
  /\ faults' = faults + 1
  /\ events' = Rejected({k})
  /\ pending' = pending \ {k}
  /\ UNCHANGED <<alreadyFetching, initialFileListLoad, spaceSnapshot, backend,
                 ops, mods, externals, limits>>

\* a dispatchEvent promise that no one awaits settles
SettleFloating(k) ==
  /\ k \in pending /\ ~events[k].awaited
  /\ pending' = pending \ {k}
  /\ UNCHANGED <<alreadyFetching, initialFileListLoad, spaceSnapshot, backend,
                 ops, events, mods, faults,
                 externals, limits>>


\* ------------------------------------------------ EventedSpacePrimitives
\* fault: fetchFileList that does not test the Guard
FetchSkipsEvents_Never(guard) == FALSE

\* if (this.alreadyFetching) return this.wrapped.fetchFileList();
FetchSkipsEvents(guard) == guard

\* fault: the "new file scenario" without its !initialFileListLoad gate
ListEventDue_NoInitialGate(oldHash, newHash, initial) ==
  \/ ~Truthy(oldHash)
  \/ (Truthy(oldHash) /\ oldHash # newHash)

\* the condition under which fetchFileList dispatches file:changed for one
\* entry of the fresh list: "new file scenario" or "changed file scenario"
ListEventDue(oldHash, newHash, initial) ==
  \/ (~Truthy(oldHash) /\ ~initial)
  \/ (Truthy(oldHash) /\ oldHash # newHash)

\* The for-loop over newFileList, run synchronously from entry i until an
\* entry dispatches (the loop then awaits) or the list is exhausted.
RECURSIVE ListScan(_, _, _, _, _)
ListScan(list, i, snap, del, initial) ==
  IF i > Len(list)
  THEN [fire |-> FALSE, i |-> i, snap |-> snap, del |-> del,
        old |-> Undefined, new |-> Undefined]
  ELSE LET name == list[i].name
           oldHash == SnapGet(snap, name)
           newHash == list[i].lastModified
           snap2 == SnapSet(snap, name, newHash)
       IN IF ListEventDue(oldHash, newHash, initial)
          THEN [fire |-> TRUE, i |-> i, snap |-> snap2, del |-> del,
                old |-> oldHash, new |-> newHash]
          ELSE ListScan(list, i + 1, snap2, SetDelete(del, name), initial)

\* fault: file:listed dispatched with a list that lost its last entry
ListedPayload_Truncated(op) == SubSeq(op.list, 1, Len(op.list) - 1)

\* the argument of dispatchEvent("file:listed", newFileList)
ListedPayload(op) == op.list

\* the loop over deletedFiles, then file:listed
ListDeletions(o, op, snap, del) ==
  IF del # <<>>
  THEN /\ spaceSnapshot' = SnapDelete(snap, Head(del))
       /\ EmitAwaited(o, Event(o, "file:deleted", Head(del), FALSE,
                               Undefined, Undefined, <<>>, TRUE))
       /\ ops' = [ops EXCEPT ![o] = [op EXCEPT !.pc = "ldeleted", !.del = del]]
  ELSE /\ spaceSnapshot' = snap
       /\ EmitAwaited(o, Event(o, "file:listed", NoName, FALSE,
                               Undefined, Undefined, ListedPayload(op), TRUE))
       /\ ops' = [ops EXCEPT ![o] = [op EXCEPT !.pc = "llisted", !.del = del]]

\* the diff of fetchFileList from entry i on
ListAdvance(o, op, i, del) ==
  LET s == ListScan(op.list, i, spaceSnapshot, del, initialFileListLoad)
  IN IF s.fire
     THEN /\ spaceSnapshot' = s.snap
          /\ EmitAwaited(o, Event(o, "file:changed", op.list[s.i].name, FALSE,
                                  s.old, s.new, <<>>, TRUE))
          /\ ops' = [ops EXCEPT ![o] =
                       [op EXCEPT !.pc = "lchanged", !.i = s.i, !.del = s.del]]
     ELSE ListDeletions(o, op, s.snap, s.del)

\* fetchFileList(), up to await this.wrapped.fetchFileList()
StartList ==
  /\ CanStart
  /\ ops' = Append(ops, NewOp("list", NoName, FALSE, alreadyFetching, "backend"))
  /\ alreadyFetching' = TRUE
  /\ UNCHANGED <<initialFileListLoad, spaceSnapshot, backend, events, pending,
                 mods, faults,
                 externals, limits>>

\* fetchFileList() after the backend answered
ResumeList(o) ==
  /\ o \in OpIds /\ ops[o].kind = "list" /\ ops[o].pc = "backendDone"
  /\ IF FetchSkipsEvents(ops[o].wasFetching) \/ ops[o].err # "none"
     THEN \* the wrapped promise is returned as is, or the await outside the
          \* try rejects: nothing touches the Guard
          /\ ops' = [ops EXCEPT ![o] =
                       IF @.err # "none"
                       THEN Failed(@, @.err, alreadyFetching)
                       ELSE Done(@, alreadyFetching)]
          /\ UNCHANGED <<spaceSnapshot, events, pending>>
     ELSE ListAdvance(o, [ops[o] EXCEPT !.snap0 = spaceSnapshot], 1,
                      SnapKeys(spaceSnapshot))
  /\ UNCHANGED <<alreadyFetching, initialFileListLoad, backend, mods, faults,
                 externals, limits>>

\* after await dispatchEvent("file:changed", ...) in the loop
ResumeListChanged(o) ==
  /\ o \in OpIds /\ ops[o].pc = "lchanged"
  /\ ListAdvance(o, ops[o], ops[o].i + 1,
                 SetDelete(ops[o].del, ops[o].list[ops[o].i].name))
  /\ UNCHANGED <<alreadyFetching, initialFileListLoad, backend, mods, faults,
                 externals, limits>>

\* after await dispatchEvent("file:deleted", deletedFile)
ResumeListDeleted(o) ==
  /\ o \in OpIds /\ ops[o].pc = "ldeleted"
  /\ IF EndsWithMd(Head(ops[o].del))
     THEN /\ EmitAwaited(o, Event(o, "page:deleted", PageName(Head(ops[o].del)),
                                  FALSE, Undefined, Undefined, <<>>, TRUE))
          /\ ops' = [ops EXCEPT ![o].pc = "lpageDeleted"]
          /\ UNCHANGED spaceSnapshot
     ELSE ListDeletions(o, ops[o], spaceSnapshot, Tail(ops[o].del))
  /\ UNCHANGED <<alreadyFetching, initialFileListLoad, backend, mods, faults,
                 externals, limits>>

\* after await dispatchEvent("page:deleted", pageName)
ResumeListPageDeleted(o) ==
  /\ o \in OpIds /\ ops[o].pc = "lpageDeleted"
  /\ ListDeletions(o, ops[o], spaceSnapshot, Tail(ops[o].del))
  /\ UNCHANGED <<alreadyFetching, initialFileListLoad, backend, mods, faults,
                 externals, limits>>

\* after await dispatchEvent("file:listed", newFileList)
ResumeListListed(o) ==
  /\ o \in OpIds /\ ops[o].pc = "llisted"
  /\ initialFileListLoad' = FALSE
  /\ alreadyFetching' = FALSE
  /\ ops' = [ops EXCEPT ![o] = Done(@, FALSE)]
  /\ EmitNothing(o)
  /\ UNCHANGED <<spaceSnapshot, backend, mods, faults,
                 externals, limits>>

\* if (oldHash && newHash && oldHash !== newHash)
TriggerDue(oldHash, newHash) ==
  Truthy(oldHash) /\ Truthy(newHash) /\ oldHash # newHash

\* triggerEventsAndCache(name, newHash): the dispatch is not awaited
TriggerEventsAndCache(o, name, newHash) ==
  LET oldHash == SnapGet(spaceSnapshot, name)
  IN /\ IF TriggerDue(oldHash, newHash)
        THEN /\ events' = Append(events, Event(o, "file:changed", name, FALSE,
                                               oldHash, newHash, <<>>, FALSE))
             /\ pending' = pending \cup {Len(events) + 1}
        ELSE UNCHANGED <<events, pending>>
     /\ spaceSnapshot' = SnapSet(spaceSnapshot, name, newHash)

\* readFile(name), up to await this.wrapped.readFile(name)
StartRead(name) ==
  /\ CanStart
  /\ ops' = Append(ops, NewOp("read", name, FALSE, alreadyFetching, "backend"))
  /\ alreadyFetching' = TRUE
  /\ UNCHANGED <<initialFileListLoad, spaceSnapshot, backend, events, pending,
                 mods, faults,
                 externals, limits>>

\* readFile(name) after the backend answered
ResumeRead(o) ==
  /\ o \in OpIds /\ ops[o].kind = "read" /\ ops[o].pc = "backendDone"
  /\ IF ops[o].err # "none"
     THEN /\ ops' = [ops EXCEPT ![o] = Failed(@, @.err, FALSE)]
          /\ UNCHANGED <<spaceSnapshot, events, pending>>
     ELSE /\ ops' = [ops EXCEPT ![o] = Done(@, FALSE)]
          /\ IF ~ops[o].wasFetching
             THEN TriggerEventsAndCache(o, ops[o].name, ops[o].meta)
             ELSE UNCHANGED <<spaceSnapshot, events, pending>>
  /\ alreadyFetching' = FALSE
  /\ UNCHANGED <<initialFileListLoad, backend, mods, faults,
                 externals, limits>>


WriteChangedDue_IgnoresSelf(selfUpdate, wasFetching) == ~wasFetching

\* if (!selfUpdate && !wasFetching)
WriteChangedDue(selfUpdate, wasFetching) == ~selfUpdate /\ ~wasFetching

WriteCaches_Never(wasFetching) == FALSE

\* if (!wasFetching) this.spaceSnapshot[name] = newMeta.lastModified
WriteCaches(wasFetching) == ~wasFetching

\* writeFile from the snapshot update on
WriteTail(o, op) ==
  /\ spaceSnapshot' = IF WriteCaches(op.wasFetching)
                      THEN SnapSet(spaceSnapshot, op.name, op.meta)
                      ELSE spaceSnapshot
  /\ IF EndsWithMd(op.name)
     THEN /\ EmitAwaited(o, Event(o, "page:saved", PageName(op.name), FALSE,
                                  Undefined, op.meta, <<>>, TRUE))
          /\ ops' = [ops EXCEPT ![o] = [op EXCEPT !.pc = "wsaved"]]
          /\ UNCHANGED alreadyFetching
     ELSE /\ EmitNothing(o)
          /\ ops' = [ops EXCEPT ![o] = Done(op, FALSE)]
          /\ alreadyFetching' = FALSE

\* writeFile(name, data, selfUpdate), up to await this.wrapped.writeFile(...)
StartWrite(name, data, selfUpdate) ==
  /\ CanStart
  /\ ops' = Append(ops, [NewOp("write", name, selfUpdate, alreadyFetching,
                               "backend") EXCEPT !.data = data])
  /\ alreadyFetching' = TRUE
  /\ UNCHANGED <<initialFileListLoad, spaceSnapshot, backend, events, pending,
                 mods, faults,
                 externals, limits>>

\* writeFile after the backend answered
ResumeWrite(o) ==
  /\ o \in OpIds /\ ops[o].kind = "write" /\ ops[o].pc = "backendDone"
  /\ IF ops[o].err # "none"
     THEN /\ ops' = [ops EXCEPT ![o] = Failed(@, @.err, FALSE)]
          /\ alreadyFetching' = FALSE
          /\ UNCHANGED <<spaceSnapshot, events, pending>>
     ELSE IF WriteChangedDue(ops[o].selfUpdate, ops[o].wasFetching)
          THEN /\ EmitAwaited(o, Event(o, "file:changed", ops[o].name, TRUE,
                                       Undefined, ops[o].meta, <<>>, TRUE))
               /\ ops' = [ops EXCEPT ![o].pc = "wchanged"]
               /\ UNCHANGED <<spaceSnapshot, alreadyFetching>>
          ELSE WriteTail(o, ops[o])
  /\ UNCHANGED <<initialFileListLoad, backend, mods, faults,
                 externals, limits>>

\* after await dispatchEvent("file:changed", name, true, undefined, ...)
ResumeWriteChanged(o) ==
  /\ o \in OpIds /\ ops[o].pc = "wchanged"
  /\ WriteTail(o, ops[o])
  /\ UNCHANGED <<initialFileListLoad, backend, mods, faults,
                 externals, limits>>

IndexText_Raw(data) == data

\* the text of page:index_text: decoder.decode(data)
IndexText(data) == Utf8Decode(data)

\* after await dispatchEvent("page:saved", pageName, newMeta)
ResumeWriteSaved(o) ==
  /\ o \in OpIds /\ ops[o].pc = "wsaved"
  /\ EmitAwaited(o, [Event(o, "page:index_text", PageName(ops[o].name), FALSE,
                           Undefined, Undefined, <<>>, TRUE)
                       EXCEPT !.text = IndexText(ops[o].data)])
  /\ ops' = [ops EXCEPT ![o].pc = "windex"]
  /\ UNCHANGED <<alreadyFetching, initialFileListLoad, spaceSnapshot, backend,
                 mods, faults,
                 externals, limits>>

\* after await dispatchEvent("page:index_text", ...): return newMeta
ResumeWriteIndexed(o) ==
  /\ o \in OpIds /\ ops[o].pc = "windex"
  /\ EmitNothing(o)
  /\ ops' = [ops EXCEPT ![o] = Done(@, FALSE)]
  /\ alreadyFetching' = FALSE
  /\ UNCHANGED <<initialFileListLoad, spaceSnapshot, backend, mods, faults,
                 externals, limits>>

\* getFileMeta(name), up to await this.wrapped.getFileMeta(name)
StartGetMeta(name) ==
  /\ CanStart
  /\ ops' = Append(ops, NewOp("meta", name, FALSE, alreadyFetching, "backend"))
  /\ alreadyFetching' = TRUE
  /\ UNCHANGED <<initialFileListLoad, spaceSnapshot, backend, events, pending,
                 mods, faults,
                 externals, limits>>

IsNotFound_Any(err) == TRUE

\* if (e.message === "Not found")
IsNotFound(err) == err = "notfound"

\* getFileMeta after the backend answered
ResumeGetMeta(o) ==
  /\ o \in OpIds /\ ops[o].kind = "meta" /\ ops[o].pc = "backendDone"
  /\ IF ops[o].err = "none"
     THEN /\ ops' = [ops EXCEPT ![o] = Done(@, FALSE)]
          /\ alreadyFetching' = FALSE
          /\ IF ~ops[o].wasFetching
             THEN TriggerEventsAndCache(o, ops[o].name, ops[o].meta)
             ELSE UNCHANGED <<spaceSnapshot, events, pending>>
     ELSE IF IsNotFound(ops[o].err)
          THEN \* catch
               /\ EmitAwaited(o, Event(o, "file:deleted", ops[o].name, FALSE,
                                       Undefined, Undefined, <<>>, TRUE))
               /\ ops' = [ops EXCEPT ![o].pc = "gdel"]
               /\ UNCHANGED <<spaceSnapshot, alreadyFetching>>
          ELSE /\ ops' = [ops EXCEPT ![o] = Failed(@, @.err, FALSE)]
               /\ alreadyFetching' = FALSE
               /\ UNCHANGED <<spaceSnapshot, events, pending>>
  /\ UNCHANGED <<initialFileListLoad, backend, mods, faults,
                 externals, limits>>

\* catch block after await dispatchEvent("file:deleted", name)
ResumeGetMetaDeleted(o) ==
  /\ o \in OpIds /\ ops[o].pc = "gdel"
  /\ IF EndsWithMd(ops[o].name)
     THEN /\ EmitAwaited(o, Event(o, "page:deleted", PageName(ops[o].name),
                                  FALSE, Undefined, Undefined, <<>>, TRUE))
          /\ ops' = [ops EXCEPT ![o].pc = "gdelPage"]
          /\ UNCHANGED alreadyFetching
     ELSE /\ EmitNothing(o)
          /\ ops' = [ops EXCEPT ![o] = Failed(@, @.err, FALSE)]
          /\ alreadyFetching' = FALSE
  /\ UNCHANGED <<initialFileListLoad, spaceSnapshot, backend, mods, faults,
                 externals, limits>>

\* catch block after await dispatchEvent("page:deleted", pageName): throw e
ResumeGetMetaPageDeleted(o) ==
  /\ o \in OpIds /\ ops[o].pc = "gdelPage"
  /\ EmitNothing(o)
  /\ ops' = [ops EXCEPT ![o] = Failed(@, @.err, FALSE)]
  /\ alreadyFetching' = FALSE
  /\ UNCHANGED <<initialFileListLoad, spaceSnapshot, backend, mods, faults,
                 externals, limits>>

DeleteAnnouncesPage_Never(name) == FALSE

\* if (name.endsWith(".md")), before the backend is called
DeleteAnnouncesPage(name) == EndsWithMd(name)

\* deleteFile(name), up to its first await.  The method never reads the
\* Guard; wasFetching only records what the Guard was on entry.
StartDelete(name) ==
  /\ CanStart
  /\ alreadyFetching' = TRUE
  /\ IF DeleteAnnouncesPage(name)
     THEN /\ ops' = Append(ops, NewOp("delete", name, FALSE, alreadyFetching,
                                      "dpage"))
          /\ events' = Append(events,
                              Event(Len(ops) + 1, "page:deleted", PageName(name),
                                    FALSE, Undefined, Undefined, <<>>, TRUE))
          /\ pending' = pending \cup {Len(events) + 1}
     ELSE /\ ops' = Append(ops, NewOp("delete", name, FALSE, alreadyFetching,
                                      "backend"))
          /\ UNCHANGED <<events, pending>>
  /\ UNCHANGED <<initialFileListLoad, spaceSnapshot, backend, mods, faults,
                 externals, limits>>

\* after await dispatchEvent("page:deleted", pageName): call the backend
ResumeDeletePage(o) ==
  /\ o \in OpIds /\ ops[o].pc = "dpage"
  /\ EmitNothing(o)
  /\ ops' = [ops EXCEPT ![o].pc = "backend"]
  /\ UNCHANGED <<alreadyFetching, initialFileListLoad, spaceSnapshot, backend,
                 mods, faults,
                 externals, limits>>

\* deleteFile after the backend answered
ResumeDelete(o) ==
  /\ o \in OpIds /\ ops[o].kind = "delete" /\ ops[o].pc = "backendDone"
  /\ IF ops[o].err # "none"
     THEN /\ ops' = [ops EXCEPT ![o] = Failed(@, @.err, FALSE)]
          /\ alreadyFetching' = FALSE
          /\ UNCHANGED <<spaceSnapshot, events, pending>>
     ELSE /\ spaceSnapshot' = SnapDelete(spaceSnapshot, ops[o].name)
          /\ EmitAwaited(o, Event(o, "file:deleted", ops[o].name, FALSE,
                                  Undefined, Undefined, <<>>, TRUE))
          /\ ops' = [ops EXCEPT ![o].pc = "ddel"]
          /\ UNCHANGED alreadyFetching
  /\ UNCHANGED <<initialFileListLoad, backend, mods, faults,
                 externals, limits>>

\* after await dispatchEvent("file:deleted", name)
ResumeDeleteDeleted(o) ==
  /\ o \in OpIds /\ ops[o].pc = "ddel"
  /\ EmitNothing(o)
  /\ ops' = [ops EXCEPT ![o] = Done(@, FALSE)]
  /\ alreadyFetching' = FALSE
  /\ UNCHANGED <<initialFileListLoad, spaceSnapshot, backend, mods, faults,
                 externals, limits>>

\* ------------------------------------------------------- specification
Next ==
  \/ StartList
  \/ \E n \in Names : StartRead(n)
  \/ \E n \in Names, d \in Data, su \in BOOLEAN : StartWrite(n, d, su)
  \/ \E n \in Names : StartGetMeta(n)
  \/ \E n \in Names : StartDelete(n)
  \/ \E o \in OpIds : BackendList(o)
  \/ \E o \in OpIds : BackendRead(o)
  \/ \E o \in OpIds : BackendWrite(o)
  \/ \E o \in OpIds : BackendDelete(o)
  \/ \E o \in OpIds : BackendFails(o)
  \/ \E n \in Names, t \in Tokens \cup {Undefined} : ExternalChange(n, t)
  \/ \E o \in OpIds : DispatchThrows(o)
  \/ \E k \in pending : FloatingThrows(k)
  \/ \E k \in pending : SettleFloating(k)
  \/ \E o \in OpIds : ResumeList(o)
  \/ \E o \in OpIds : ResumeListChanged(o)
  \/ \E o \in OpIds : ResumeListDeleted(o)
  \/ \E o \in OpIds : ResumeListPageDeleted(o)
  \/ \E o \in OpIds : ResumeListListed(o)
  \/ \E o \in OpIds : ResumeRead(o)
  \/ \E o \in OpIds : ResumeWrite(o)
  \/ \E o \in OpIds : ResumeWriteChanged(o)
  \/ \E o \in OpIds : ResumeWriteSaved(o)
  \/ \E o \in OpIds : ResumeWriteIndexed(o)
  \/ \E o \in OpIds : ResumeGetMeta(o)
  \/ \E o \in OpIds : ResumeGetMetaDeleted(o)
  \/ \E o \in OpIds : ResumeGetMetaPageDeleted(o)
  \/ \E o \in OpIds : ResumeDeletePage(o)
  \/ \E o \in OpIds : ResumeDelete(o)
  \/ \E o \in OpIds : ResumeDeleteDeleted(o)

Spec == Init /\ [][Next]_vars


\* Behaviours that only list, with the backend changing underneath.
NextList ==
  \/ StartList
  \/ \E o \in OpIds : BackendList(o)
  \/ \E o \in OpIds : BackendFails(o)
  \/ \E n \in Names, t \in Tokens \cup {Undefined} : ExternalChange(n, t)
  \/ \E o \in OpIds : DispatchThrows(o)
  \/ \E o \in OpIds : ResumeList(o)
  \/ \E o \in OpIds : ResumeListChanged(o)
  \/ \E o \in OpIds : ResumeListDeleted(o)
  \/ \E o \in OpIds : ResumeListPageDeleted(o)
  \/ \E o \in OpIds : ResumeListListed(o)

SpecList == InitList /\ [][NextList]_vars

\* Behaviours of Writes and Lists only, one call more, from an empty space,
\* with a dependable backend and dispatcher and no one else changing files.
InitWriteList ==
  /\ Fresh
  /\ backend = [n \in Names |-> Undefined]
  /\ limits = [ops |-> MaxWriteListOps]

NextWriteList ==
  \/ StartList
  \/ \E n \in Names, d \in Data, su \in BOOLEAN : StartWrite(n, d, su)
  \/ \E o \in OpIds : BackendList(o)
  \/ \E o \in OpIds : BackendWrite(o)
  \/ \E o \in OpIds : ResumeList(o)
  \/ \E o \in OpIds : ResumeListChanged(o)
  \/ \E o \in OpIds : ResumeListListed(o)
  \/ \E o \in OpIds : ResumeWrite(o)
  \/ \E o \in OpIds : ResumeWriteChanged(o)
  \/ \E o \in OpIds : ResumeWriteSaved(o)
  \/ \E o \in OpIds : ResumeWriteIndexed(o)

SpecWriteList == InitWriteList /\ [][NextWriteList]_vars

\* --------------------------------------------------------------- claims
EvIds == 1 .. Len(events)

EventsOf(o) == { k \in EvIds : events[k].op = o }

IsList(o) == ops[o].kind = "list"

\* C1: a call started with no other call in flight leaves the Guard false
\* when it returns or throws, whatever failed.
GuardReleasedOnExit ==
  \A o \in OpIds : (ops[o].alone /\ Finished(ops[o])) => ~ops[o].guardAtExit

\* C2: the Guard is true whenever a top-level call has delegated to the
\* backend and has not finished its diffing and dispatching.
GuardHeldWhileInFlight ==
  (\E o \in OpIds : ops[o].alone /\ ~Finished(ops[o]) /\ ops[o].pc # "dpage")
    => alreadyFetching

\* C3: a Read, Write, GetMeta or Delete entered with the Guard held
\* dispatches nothing but a Write's page:saved / page:index_text and leaves
\* the Snapshot as it is.
NestedCallsStaySilent ==
  /\ [](\A k \in EvIds :
          (~IsList(events[k].op) /\ ops[events[k].op].wasFetching)
            => /\ ops[events[k].op].kind = "write"
               /\ events[k].kind \in {"page:saved", "page:index_text"})
  /\ [][\A o \in OpIds :
          (ops'[o] # ops[o] /\ ~IsList(o) /\ ops[o].wasFetching)
            => spaceSnapshot' = spaceSnapshot]_vars

\* C4: no two file:changed(isLocal = false) events for one name carry the
\* same new token unless the backend's entry was modified in between.
NoDuplicateChanged ==
  \A j, k \in EvIds :
    (/\ j < k
     /\ events[j].kind = "file:changed" /\ events[k].kind = "file:changed"
     /\ ~events[j].isLocal /\ ~events[k].isLocal
     /\ events[j].name = events[k].name
     /\ events[j].new = events[k].new)
      => events[j].ver # events[k].ver

\* the names a completed call touched
Completed(op) ==
  op.pc = "done" \/ (op.kind = "meta" /\ op.pc = "failed" /\ op.err = "notfound")

TouchedNames ==
  { n \in Names :
      \E o \in OpIds :
        /\ Completed(ops[o])
        /\ IF IsList(o)
           THEN \E i \in 1 .. Len(ops[o].ret.list) : ops[o].ret.list[i].name = n
           ELSE ops[o].name = n }

\* C5: with the backend modified only through the wrapper and no call in
\* flight, the Snapshot holds the backend's token for every touched name
\* and no entry for a touched name the backend does not have.
SnapshotMatchesBackend ==
  (InFlight = {} /\ externals = 0)
    => \A n \in TouchedNames : SnapGet(spaceSnapshot, n) = backend[n]

\* C6 as stated: every List() that returns has run its diff and dispatched
\* file:listed, whatever the Guard was on entry.
ListAlwaysDiffs ==
  \A o \in OpIds :
    (IsList(o) /\ ops[o].pc = "done")
      => \E k \in EventsOf(o) : events[k].kind = "file:listed"

\* C6 amended: List() tests the Guard: entered with the Guard held it
\* dispatches nothing and leaves Snapshot and Guard alone; entered with the
\* Guard free it diffs and, when it returns, has dispatched file:listed.
ListDiffsUnlessGuardHeld ==
  /\ [](\A o \in OpIds :
          IsList(o) =>
            /\ ops[o].wasFetching => EventsOf(o) = {}
            /\ (~ops[o].wasFetching /\ ops[o].pc = "done")
                 => \E k \in EventsOf(o) : events[k].kind = "file:listed")
  /\ [][\A o \in OpIds :
          (ops'[o] # ops[o] /\ IsList(o) /\ ops[o].wasFetching)
            => /\ spaceSnapshot' = spaceSnapshot
               /\ alreadyFetching' = alreadyFetching]_vars

\* C6 witness: a List() entered with the Guard held has returned a
\* non-empty listing that the Snapshot does not hold.
NestedListReturned ==
  \E o \in OpIds :
    /\ IsList(o) /\ ops[o].wasFetching /\ ops[o].pc = "done"
    /\ ops[o].ret.list # <<>>
    /\ \E i \in 1 .. Len(ops[o].ret.list) :
         SnapGet(spaceSnapshot, ops[o].ret.list[i].name)
           # ops[o].ret.list[i].lastModified

ListChangedNew(k) ==
  /\ events[k].kind = "file:changed"
  /\ IsList(events[k].op)
  /\ events[k].old = Undefined

\* C7 as stated: List() never dispatches file:changed for an entry whose
\* name is absent from the Snapshot.
NoChangedForNewEntry == \A k \in EvIds : ~ListChangedNew(k)

\* C7 amended: List() dispatches file:changed for an entry absent from the
\* Snapshot only once a listing has completed (initialFileListLoad false).
NewEntryChangedOnlyAfterFirstListing ==
  \A k \in EvIds : ListChangedNew(k) => ~events[k].initial

\* C7 witness: a first listing carried entries in file:listed without any
\* file:changed, and a later one dispatched file:changed for a new entry.
NewEntrySeenBothWays ==
  /\ \E k \in EvIds :
       /\ events[k].kind = "file:listed" /\ events[k].initial
       /\ events[k].list # <<>>
  /\ \E k \in EvIds : ListChangedNew(k)

\* C8: sequential top-level List() calls over an unchanged backend never
\* dispatch file:changed or file:deleted.
ListIdempotent ==
  ((\A o \in OpIds : IsList(o) /\ ops[o].alone) /\ externals = 0)
    => \A k \in EvIds : events[k].kind \notin {"file:changed", "file:deleted"}

LastEventOf(o) == CHOOSE k \in EventsOf(o) : \A j \in EventsOf(o) : j <= k

\* C9: a List() that ran its diff and returned dispatched file:listed once,
\* as its last event, after all its file:changed / file:deleted /
\* page:deleted events, with the backend's list, which it also returned.
ListedIsLastAndComplete ==
  \A o \in OpIds :
    (IsList(o) /\ ~ops[o].wasFetching /\ ops[o].pc = "done")
      => /\ EventsOf(o) # {}
         /\ events[LastEventOf(o)].kind = "file:listed"
         /\ events[LastEventOf(o)].list = ops[o].list
         /\ ops[o].ret.list = ops[o].list
         /\ \A k \in EventsOf(o) \ {LastEventOf(o)} :
              events[k].kind \in {"file:changed", "file:deleted", "page:deleted"}

\* C9 witness: a returned List() dispatched file:changed and file:deleted
\* ahead of file:listed.
ListWithChangesReturned ==
  \E o \in OpIds :
    /\ IsList(o) /\ ops[o].pc = "done"
    /\ \E k \in EventsOf(o) : events[k].kind = "file:changed"
    /\ \E k \in EventsOf(o) : events[k].kind = "file:deleted"
    /\ \E k \in EventsOf(o) : events[k].kind = "file:listed"

\* C10: a call entered with the Guard free does not return while a dispatch
\* it started is still pending.
DispatchesSettleBeforeReturn ==
  \A k \in pending :
    ~ops[events[k].op].wasFetching => ~Finished(ops[events[k].op])


\* C11: when the dispatcher rejects an event of a call, the call fails with
\* the dispatcher's error and dispatches nothing after that event.
DispatchFailureFailsCall ==
  \A k \in EvIds :
    events[k].failed =>
      /\ ops[events[k].op].pc = "failed"
      /\ ops[events[k].op].err = "dispatch"
      /\ \A j \in EventsOf(events[k].op) : j <= k

\* the dispatchEvent calls of call o, in the order they were made
EventSeqOf(o) == SelectSeq(events, LAMBDA e : e.op = o)

\* C12: a GetMeta whose backend call fails with NotFound dispatches
\* deleted(name), then documentDeleted(document name) when the name is a
\* document, and fails with that NotFound; one whose backend call fails
\* otherwise dispatches nothing and fails with the backend's failure.
GetMetaNotFoundAnnounced ==
  \A o \in OpIds :
    ops[o].kind = "meta" =>
      LET es == EventSeqOf(o)
          name == ops[o].name
      IN /\ ops[o].pc \in {"gdel", "gdelPage"} => ops[o].err = "notfound"
         /\ ops[o].pc = "failed" /\ ops[o].err = "notfound" =>
              /\ ops[o].meta = Undefined
              /\ Len(es) = IF EndsWithMd(name) THEN 2 ELSE 1
              /\ es[1].kind = "file:deleted" /\ es[1].name = name
              /\ EndsWithMd(name) =>
                   es[2].kind = "page:deleted" /\ es[2].name = PageName(name)
         /\ ops[o].err = "backend" => es = <<>>

\* a GetMeta of a missing document and a GetMeta that met an I/O error have
\* both failed
GetMetaFailedBothWays ==
  \E o1, o2 \in OpIds :
    /\ ops[o1].kind = "meta" /\ ops[o1].pc = "failed"
    /\ ops[o1].err = "notfound" /\ EndsWithMd(ops[o1].name)
    /\ ops[o2].kind = "meta" /\ ops[o2].pc = "failed"
    /\ ops[o2].err = "backend"

\* call o dispatches an event of this kind in the step
Emits(o, kind) ==
  /\ Len(events') = Len(events) + 1
  /\ events'[Len(events')].op = o
  /\ events'[Len(events')].kind = kind

\* what a Delete has dispatched, against where it stands
DeleteOrder(o) ==
  LET es == EventSeqOf(o)
      name == ops[o].name
      both == <<"page:deleted", "file:deleted">>
      kinds == [k \in 1 .. Len(es) |-> es[k].kind]
      beforeBackend == ops[o].pc \in {"dpage", "backend", "backendDone"}
                         \/ ops[o].err \in {"notfound", "backend"}
  IN /\ \A k \in 1 .. Len(es) :
          es[k].name = IF es[k].kind = "page:deleted"
                       THEN PageName(name) ELSE name
     /\ IF EndsWithMd(name)
        THEN /\ kinds # <<>> /\ kinds[1] = "page:deleted"
             /\ beforeBackend => Len(kinds) = 1
             /\ ops[o].pc \in {"ddel", "done"} => kinds = both
             /\ Len(kinds) <= 2
             /\ Len(kinds) = 2 => kinds = both
        ELSE /\ beforeBackend => kinds = <<>>
             /\ ops[o].pc \in {"ddel", "done"} => kinds = <<"file:deleted">>
             /\ Len(kinds) <= 1
             /\ Len(kinds) = 1 => kinds = <<"file:deleted">>

\* C13: Delete of a document dispatches documentDeleted before the backend
\* delete is called, and deleted(name) only once the backend delete has
\* succeeded and the name is out of the Snapshot; Delete of another name
\* dispatches deleted(name) only, after the backend delete.
DeleteAnnouncesInOrder ==
  /\ [](\A o \in OpIds : ops[o].kind = "delete" => DeleteOrder(o))
  /\ [][\A o \in OpIds :
          ops[o].kind = "delete" =>
            /\ Emits(o, "file:deleted") =>
                 /\ ops[o].pc = "backendDone" /\ ops[o].err = "none"
                 /\ SnapGet(spaceSnapshot', ops[o].name) = Undefined
            /\ ops[o].pc = "backend" /\ ops'[o].pc = "backendDone"
                 /\ ops'[o].err = "none" =>
                 /\ backend'[ops[o].name] = Undefined
                 /\ SnapGet(spaceSnapshot', ops[o].name)
                      = SnapGet(spaceSnapshot, ops[o].name)
       ]_vars

\* a Delete of a document and a Delete of another file have both returned,
\* the document's name having been in the Snapshot
DeletedBothKinds ==
  \E o1, o2 \in OpIds :
    /\ ops[o1].kind = "delete" /\ ops[o1].pc = "done"
    /\ EndsWithMd(ops[o1].name)
    /\ ops[o2].kind = "delete" /\ ops[o2].pc = "done"
    /\ ~EndsWithMd(ops[o2].name)

\* call o is a Write whose backend write succeeded and that has gone on from it
WriteWentOn(o) ==
  /\ ops[o].kind = "write"
  /\ ops[o].pc \notin {"backend", "backendDone"}
  /\ ops[o].err # "backend"

\* the events of call o that are changed(name, isLocal = true, absent, new)
LocalChanged(o) ==
  { k \in EventsOf(o) :
      /\ events[k].kind = "file:changed" /\ events[k].name = ops[o].name
      /\ events[k].isLocal
      /\ events[k].old = Undefined /\ events[k].new = ops[o].meta }

\* the file:changed events of call o
ChangedBy(o) == { k \in EventsOf(o) : events[k].kind = "file:changed" }

\* C14 as stated: a self-originated Write never dispatches a changed event
\* with isLocal = true, and every Write that is not self-originated and whose
\* backend write succeeds dispatches changed(name, true, absent, newToken).
WriteAlwaysAnnounced ==
  \A o \in OpIds :
    ops[o].kind = "write" =>
      /\ ops[o].selfUpdate =>
           \A k \in EventsOf(o) :
             ~(events[k].kind = "file:changed" /\ events[k].isLocal)
      /\ ~ops[o].selfUpdate /\ WriteWentOn(o) => LocalChanged(o) # {}

\* C14, amended: a self-originated Write never dispatches a changed event
\* with isLocal = true; a Write that is not self-originated, found the Guard
\* false on entry and whose backend write succeeds dispatches
\* changed(name, true, absent, newToken); a Write that found the Guard held
\* dispatches no changed event.
WriteAnnouncedWhenGuardFree ==
  \A o \in OpIds :
    ops[o].kind = "write" =>
      /\ ops[o].selfUpdate =>
           \A k \in EventsOf(o) :
             ~(events[k].kind = "file:changed" /\ events[k].isLocal)
      /\ ~ops[o].selfUpdate /\ ~ops[o].wasFetching /\ WriteWentOn(o) =>
           LocalChanged(o) # {} /\ ChangedBy(o) = LocalChanged(o)
      /\ ops[o].wasFetching => ChangedBy(o) = {}

\* a Write that is not self-originated has announced its change, and another
\* one, entered while the Guard was held, has returned silently
WriteAnnouncedAndSilent ==
  \E o1, o2 \in OpIds :
    /\ ops[o1].kind = "write" /\ ~ops[o1].selfUpdate /\ ~ops[o1].wasFetching
    /\ LocalChanged(o1) # {}
    /\ ops[o2].kind = "write" /\ ~ops[o2].selfUpdate /\ ops[o2].wasFetching
    /\ ops[o2].pc = "done"

\* call o is a Write, not self-originated, of a name the Snapshot held on
\* entry with another token than the one written
Overwrites(o) ==
  /\ ops[o].kind = "write" /\ ~ops[o].selfUpdate
  /\ WriteWentOn(o)
  /\ ops[o].seen # Undefined /\ ops[o].seen # ops[o].meta

\* the events of call o that are changed(name, isLocal = false, old, new)
\* with the token the Snapshot held and the token written
RemoteChanged(o) ==
  { k \in EventsOf(o) :
      /\ events[k].kind = "file:changed" /\ events[k].name = ops[o].name
      /\ ~events[k].isLocal
      /\ events[k].old = ops[o].seen /\ events[k].new = ops[o].meta }

\* C15 as stated, for the Write that is top-level: overwriting a name the
\* Snapshot holds with another token, it dispatches itself exactly one
\* changed event, with isLocal = false, the Snapshot's previous token as
\* oldToken and the written token as newToken.
OverwriteSeenAsRemoteChange ==
  \A o \in OpIds :
    Overwrites(o) /\ ~ops[o].wasFetching /\ ops[o].pc = "done" =>
      Cardinality(RemoteChanged(o)) = 1 /\ ChangedBy(o) = RemoteChanged(o)

\* call o goes from its backend write to the rest of writeFile in the step
WriteTailStep(o) ==
  /\ ops[o].pc \in {"backendDone", "wchanged"}
  /\ ops'[o].pc \in {"wsaved", "done"}

\* C15, amended: a Write, not self-originated, of a name the Snapshot holds
\* with another token dispatches, when it found the Guard false, exactly one
\* changed event, itself, with isLocal = true, oldToken absent and the
\* written token, and then stores the written token in the Snapshot; when it
\* found the Guard held it dispatches no changed event and leaves the
\* Snapshot's entry as it was.
OverwriteAnnouncedLocally ==
  /\ [](\A o \in OpIds :
          Overwrites(o) =>
            /\ RemoteChanged(o) = {}
            /\ ~ops[o].wasFetching /\ ops[o].pc = "done" =>
                 Cardinality(LocalChanged(o)) = 1
                   /\ ChangedBy(o) = LocalChanged(o)
            /\ ops[o].wasFetching => ChangedBy(o) = {})
  /\ [][\A o \in OpIds :
          ops[o].kind = "write" /\ ~ops[o].selfUpdate /\ WriteTailStep(o) =>
            SnapGet(spaceSnapshot', ops[o].name)
              = IF ops[o].wasFetching
                THEN SnapGet(spaceSnapshot, ops[o].name)
                ELSE ops[o].meta
       ]_vars

\* a top-level Write has overwritten a name the Snapshot held and returned,
\* and so has one that found the Guard held
OverwrittenBothWays ==
  \E o1, o2 \in OpIds :
    /\ Overwrites(o1) /\ ~ops[o1].wasFetching /\ ops[o1].pc = "done"
    /\ Overwrites(o2) /\ ops[o2].wasFetching /\ ops[o2].pc = "done"

\* call w is a returned Write, not self-originated, of a name the Snapshot
\* did not hold, and no other Write is to that name
NewNameWrite(w) ==
  /\ ops[w].kind = "write" /\ ~ops[w].selfUpdate
  /\ ops[w].pc = "done"
  /\ ops[w].seen = Undefined
  /\ \A x \in OpIds \ {w} :
       ops[x].kind = "write" => ops[x].name # ops[w].name

\* a List started with no call in flight
ListAlone(l) == ops[l].kind = "list" /\ ops[l].alone

\* call l is the List() that follows call w, and it has returned
FollowingList(w, l) ==
  /\ l > w /\ ListAlone(l) /\ ops[l].pc = "done"
  /\ \A j \in (w + 1) .. (l - 1) : ~ListAlone(j)

\* the file:listed event of call l
ListedOf(l) == { k \in EventsOf(l) : events[k].kind = "file:listed" }

\* the file:changed events call l dispatched for name
ChangedFor(l, name) ==
  { k \in ChangedBy(l) : events[k].name = name }

ListedHolds(l, name) ==
  \E k \in ListedOf(l) :
    \E i \in 1 .. Len(events[k].list) : events[k].list[i].name = name

\* C16 as stated: the List() that follows a Write, not self-originated, of a
\* never-seen name dispatches listed with the name in it and no changed
\* event for the name, whether the Write found the Guard held or not.
NewNameOnlyListed ==
  \A w, l \in OpIds :
    NewNameWrite(w) /\ FollowingList(w, l) =>
      /\ ListedHolds(l, ops[w].name)
      /\ ChangedFor(l, ops[w].name) = {}

\* C16, amended: that List() dispatches listed with the name in it; it
\* dispatches no changed event for the name when no listing had completed
\* before it; when one had and the Snapshot still lacks the name, it
\* dispatches changed(name, false, absent, newToken) for it, once.
NewNameListedThenChangedIfLate ==
  \A w, l \in OpIds :
    NewNameWrite(w) /\ FollowingList(w, l) =>
      /\ ListedHolds(l, ops[w].name)
      /\ (\A k \in ListedOf(l) : events[k].initial) =>
           ChangedFor(l, ops[w].name) = {}
      /\ /\ \A k \in ListedOf(l) : ~events[k].initial
         /\ SnapGet(ops[l].snap0, ops[w].name) = Undefined
         => /\ Cardinality(ChangedFor(l, ops[w].name)) = 1
            /\ \A k \in ChangedFor(l, ops[w].name) :
                 /\ ~events[k].isLocal
                 /\ events[k].old = Undefined
                 /\ events[k].new = ops[w].meta

\* after a completed listing, a Write entered while the Guard was held has
\* made a new name, and the List() following it has returned
NewNameAfterListing ==
  \E w, l \in OpIds :
    /\ NewNameWrite(w) /\ ops[w].wasFetching /\ FollowingList(w, l)
    /\ \A k \in ListedOf(l) : ~events[k].initial
    /\ SnapGet(ops[l].snap0, ops[w].name) = Undefined

\* the page events of call o, in the order they were dispatched
PageEventsOf(o) ==
  SelectSeq(events,
            LAMBDA e : e.op = o /\ e.kind \in {"page:saved", "page:index_text"})

\* C17: every Write of a document name whose backend write succeeds
\* dispatches documentSaved(document name, new metadata) and then
\* documentIndexText({document name, decoded text}), whatever the Guard and
\* isSelfOriginated; a Write of another name dispatches neither.
DocumentWriteIndexed ==
  \A o \in OpIds :
    ops[o].kind = "write" =>
      LET ps == PageEventsOf(o)
      IN IF EndsWithMd(ops[o].name)
         THEN /\ Len(ps) <= 2
              /\ ops[o].pc = "wsaved" => Len(ps) = 1
              /\ ops[o].pc \in {"windex", "done"} => Len(ps) = 2
              /\ Len(ps) >= 1 =>
                   /\ WriteWentOn(o)
                   /\ ps[1].kind = "page:saved"
                   /\ ps[1].name = PageName(ops[o].name)
                   /\ ps[1].new = ops[o].meta
              /\ Len(ps) = 2 =>
                   /\ ps[2].kind = "page:index_text"
                   /\ ps[2].name = PageName(ops[o].name)
                   /\ ps[2].text = <<104, 233, Replacement>>
         ELSE ps = <<>>

\* a self-originated Write of a document, entered while the Guard was held,
\* has returned, and so has a Write of another file
DocumentWrittenUnderGuard ==
  \E o1, o2 \in OpIds :
    /\ ops[o1].kind = "write" /\ EndsWithMd(ops[o1].name)
    /\ ops[o1].wasFetching /\ ops[o1].selfUpdate /\ ops[o1].pc = "done"
    /\ ops[o2].kind = "write" /\ ~EndsWithMd(ops[o2].name)
    /\ ops[o2].pc = "done"

\* call l is a List() that found the Guard false and has started its diff
Diffing(l) ==
  /\ ops[l].kind = "list" /\ ~ops[l].wasFetching
  /\ ops[l].pc \notin {"backend", "backendDone"}
  /\ ops[l].err # "backend"

\* the names of the listing call l fetched
Listed(l) == { ops[l].list[i].name : i \in 1 .. Len(ops[l].list) }

\* the names the Snapshot held when call l started its diff and that its
\* listing lacks
Vanished(l) ==
  { ops[l].snap0[i].name : i \in 1 .. Len(ops[l].snap0) } \ Listed(l)

\* what call l dispatched about deletions, in order: every file:deleted is
\* of a vanished name, at most once, and a page:deleted follows it exactly
\* when the name is a document
DeletionEventsInOrder(l) ==
  LET es == EventSeqOf(l)
  IN \A i \in 1 .. Len(es) :
       /\ es[i].kind = "file:deleted" =>
            /\ es[i].name \in Vanished(l)
            /\ \A j \in 1 .. Len(es) :
                 es[j].kind = "file:deleted" /\ es[j].name = es[i].name
                   => j = i
            /\ i < Len(es) =>
                 IF EndsWithMd(es[i].name)
                 THEN /\ es[i + 1].kind = "page:deleted"
                      /\ es[i + 1].name = PageName(es[i].name)
                 ELSE es[i + 1].kind # "page:deleted"
       /\ es[i].kind = "page:deleted" =>
            i > 1 /\ es[i - 1].kind = "file:deleted"

\* C18: a top-level List() dispatches deleted(name) for every name that was
\* in the Snapshot when its diff started and is missing from the fresh
\* listing, removes the name from the Snapshot, and follows the event by
\* documentDeleted when the name is a document; a name in the fresh listing
\* gets no deleted event and stays in the Snapshot.
ListAnnouncesVanished ==
  /\ [](\A l \in OpIds :
          Diffing(l) =>
            /\ DeletionEventsInOrder(l)
            /\ ops[l].pc \in {"llisted", "done"} =>
                 \A n \in Vanished(l) :
                   \E k \in EventsOf(l) :
                     events[k].kind = "file:deleted" /\ events[k].name = n)
  /\ [][\A l \in OpIds :
          ops[l].kind = "list" /\ ~ops[l].wasFetching /\ ops'[l] # ops[l] =>
            /\ \A n \in Names :
                 Emits(l, "file:deleted") /\ events'[Len(events')].name = n
                   => SnapGet(spaceSnapshot', n) = Undefined
            /\ \A i \in 1 .. Len(ops'[l].list) :
                 LET n == ops'[l].list[i].name
                 IN SnapGet(spaceSnapshot, n) # Undefined
                      => SnapGet(spaceSnapshot', n) # Undefined
       ]_vars

\* a top-level List() has returned after its diff met a document that had
\* vanished and a file that was still there
ListMetVanishedDocument ==
  \E l \in OpIds :
    /\ Diffing(l) /\ ops[l].pc = "done"
    /\ \E n \in Vanished(l) : EndsWithMd(n)
    /\ \E i \in 1 .. Len(ops[l].snap0) : ops[l].snap0[i].name \in Listed(l)

\* the token a listing holds for name
ListToken(list, name) ==
  IF \E i \in 1 .. Len(list) : list[i].name = name
  THEN list[CHOOSE i \in 1 .. Len(list) : list[i].name = name].lastModified
  ELSE Undefined

\* call l is a List() started with no call in flight, it has returned, and
\* every later call started with no call in flight too
ListWithoutOverlap(l) ==
  /\ ListAlone(l) /\ ~ops[l].wasFetching /\ ops[l].pc = "done"
  /\ \A j \in OpIds : j > l => ops[j].alone

\* an earlier call on name skipped its diff because the Guard was held
SkippedBefore(l, name) ==
  \E x \in 1 .. (l - 1) :
    /\ ops[x].kind # "list" /\ ops[x].name = name
    /\ ops[x].wasFetching /\ Finished(ops[x])

\* C19: if a call skipped its diff because the Guard was held and left
\* Snapshot[name] different from the backend's token (or left a name the
\* backend no longer has), the next top-level List() that completes without
\* overlap dispatches a changed (resp. deleted) event for the name, and after
\* it the Snapshot holds exactly the names and tokens of its listing.
NextListRepairsSnapshot ==
  \A l \in OpIds :
    ListWithoutOverlap(l) =>
      /\ \A n \in Names :
           LET old == SnapGet(ops[l].snap0, n)
               new == ListToken(ops[l].list, n)
           IN SkippedBefore(l, n) /\ old # Undefined /\ old # new =>
                IF new # Undefined
                THEN ChangedFor(l, n) # {}
                ELSE \E k \in EventsOf(l) :
                       events[k].kind = "file:deleted" /\ events[k].name = n
      /\ l = Len(ops) =>
           \A n \in Names :
             SnapGet(spaceSnapshot, n) = ListToken(ops[l].ret.list, n)

\* call o, a Read or a GetMeta that found the Guard false, returns the
\* backend's answer in the step
ObservesStep(o) ==
  /\ ops[o].kind \in {"read", "meta"} /\ ~ops[o].wasFetching
  /\ ops[o].pc = "backendDone" /\ ops'[o].pc = "done"

\* C20: a top-level Read, or a successful top-level GetMeta, of name that
\* observes newToken dispatches changed(name, false, oldToken, newToken) if
\* and only if the Snapshot holds an entry oldToken for name that differs
\* from newToken; it always leaves Snapshot[name] = newToken and returns the
\* backend's result unchanged.
ObservationReportsChange ==
  [][\A o \in OpIds :
       ObservesStep(o) =>
         LET name == ops[o].name
             old == SnapGet(spaceSnapshot, name)
             new == ops[o].meta
         IN /\ (old # Undefined /\ old # new) <=>
                 /\ Emits(o, "file:changed")
                 /\ events'[Len(events')].name = name
                 /\ ~events'[Len(events')].isLocal
                 /\ events'[Len(events')].old = old
                 /\ events'[Len(events')].new = new
            /\ SnapGet(spaceSnapshot', name) = new
            /\ ops'[o].ret.meta = new
    ]_vars

====
